---- MODULE Spec2Model ----
(***************************************************************************)
(* A model of the identity provider's theme service                        *)
(* (api/src/application/theme/theme-service.js) and of three handlers of   *)
(* the user controller (api/src/application/user/user-controller.js).      *)
(*                                                                         *)
(* Every async function is a sequence of steps, one per await: the         *)
(* position of a call is a program counter, and what the call has done to  *)
(* the outside world (database lookups, file reads, service calls) is      *)
(* recorded in a log.                                                      *)
(***************************************************************************)
EXTENDS Integers, Sequences, FiniteSets, TLC

VARIABLES
    \* ---- theme service -------------------------------------------------
    clientTable,      \* the Client rows: client_id -> theme_id (or NULL)
    templateTable,    \* the Template rows: id -> [theme_id, name, layout_id]
    disk,             \* the paths of the files that exist under ./templates
    entry,            \* the entry point the caller invoked
    clientId,         \* argument
    page,             \* argument
    context,          \* argument: the caller's context, as passed
    heap,             \* the objects of the call: ctx (the caller's), layoutContext
    pc,               \* position of the call
    client,           \* local of fetchTemplate
    template,         \* result of fetchTemplate / local of getThemedTemplate
    layoutCode,       \* local of getThemedTemplate
    templateCode,     \* local of getThemedTemplate
    renderedTemplate, \* local of getThemedTemplate
    io,               \* the I/O the call has performed, in order
    result,           \* how the call ended
    \* ---- postResetPasswordForm ------------------------------------------
    tokens,           \* password reset tokens: token -> user id
    passwords,        \* user id -> stored (hashed) password
    verified,         \* user id -> profile.email_verified
    updates,          \* token -> number of password updates done for it
    rq,               \* request -> [pc, token, password, user, hashed, reply]
    \* ---- changePassword --------------------------------------------------
    cpStored,         \* the user's stored (hashed) password
    cpReq,            \* the request in flight: [current, password, before]
    cpPc,             \* position of the handler
    cpAuth,           \* isAuthenticated
    cpHashed,         \* hashedPassword
    cpLog,            \* the calls the handler has made, in order
    cpDone,           \* number of requests handled
    \* ---- updateProfile ---------------------------------------------------
    upProfile,        \* user.get('profile'): the stored profile object
    upStored,         \* the profile last written by userService.update
    upReq,            \* the request: [payload, mime, redirect_uri]
    upPc,             \* position of the handler
    upOld,            \* oldPicture
    upLog,            \* the calls the handler has made, in order
    upImages          \* the pictures held by the image store

themeVars == <<clientTable, templateTable, disk, entry, clientId, page, context,
               heap, pc, client, template, layoutCode, templateCode,
               renderedTemplate, io, result>>
resetVars == <<tokens, passwords, verified, updates, rq>>
changeVars == <<cpStored, cpReq, cpPc, cpAuth, cpHashed, cpLog, cpDone>>
profileVars == <<upProfile, upStored, upReq, upPc, upOld, upLog, upImages>>
vars == <<themeVars, resetVars, changeVars, profileVars>>

-----------------------------------------------------------------------------
(* JavaScript values                                                       *)

NULL == "<null>"
UNDEFINED == "<undefined>"

\* a test against null and undefined only, as `v != null` is
Truthy_NotNullish(v) == v \notin {NULL, UNDEFINED}

\* the truthiness test of `Hoek.assert(v, ...)`, `!v` and `v || false`
Truthy(v) == v \notin {"", NULL, UNDEFINED}

Str(s) == [str |-> s]
EmptyObject == [k \in {} |-> Str("")]

\* Object.assign(target, s1, s2): the own keys of s1, then of s2, copied
\* onto target; a later source overrides an earlier one
ObjectAssign(target, s1, s2) ==
    [k \in DOMAIN target \cup DOMAIN s1 \cup DOMAIN s2 |->
        IF k \in DOMAIN s2 THEN s2[k]
        ELSE IF k \in DOMAIN s1 THEN s1[k]
        ELSE target[k]]

-----------------------------------------------------------------------------
(* Theme service: data                                                     *)

NumTemplates == 2

ClientIds == {"c1"}
UnknownClientId == "c9"
ThemeIds == {"t1", "t2"}
Pages == {"forgot-password", "user-profile"}

\* ./defaultLayouts: page name -> default layout file name
defaultLayouts == [p \in {"forgot-password"} |-> "default.hbs"]

\* defaultLayouts[page]: a key the object lacks reads undefined
DefaultLayoutOf(p) == IF p \in DOMAIN defaultLayouts THEN defaultLayouts[p] ELSE UNDEFINED

\* `./templates/layout/${defaultLayouts[page]}` and `./templates/${page}.hbs`
LayoutPath(p) == <<"./templates/layout/", IF DefaultLayoutOf(p) = UNDEFINED THEN "undefined" ELSE DefaultLayoutOf(p)>>
PagePath_NoExtension(p) == <<"./templates/", p>>
PagePath(p) == <<"./templates/", p, ".hbs">>

\* where the default assets of a page lie on disk
DefaultLayoutFile(p) == <<"./templates/layout/", IF p \in DOMAIN defaultLayouts THEN defaultLayouts[p] ELSE "undefined">>
DefaultPageFile(p) == <<"./templates/", p, ".hbs">>

\* the files a deployment may hold
DefaultFiles == {DefaultLayoutFile(p) : p \in DOMAIN defaultLayouts} \cup {DefaultPageFile(p) : p \in Pages}

\* the text of a file, read and converted by toString()
FileText(path) == [file |-> path]

\* handlebars.compile(source)(ctx): the HTML of a source under a context
Render(source, ctx) == [html |-> source, with |-> ctx]

Contexts ==
    { [k \in {"email"} |-> Str("bad")],
      [k \in {"email", "content"} |-> IF k = "email" THEN Str("bad") ELSE Str("mine")] }

NoClient == [kind |-> "null"]
NoTemplate == [kind |-> "false"]
Pending == [kind |-> "pending"]
NoText == [file |-> <<>>]
NoHtml == [html |-> NoText, with |-> EmptyObject]

Error(name, at) == [kind |-> "error", name |-> name, at |-> at]
Value(v) == [kind |-> "value", value |-> v]

\* bookshelf.model('client').where({client_id}).fetch()
ClientRow(id) ==
    IF id \in DOMAIN clientTable
    THEN [kind |-> "client", client_id |-> id, theme_id |-> clientTable[id]]
    ELSE NoClient

\* the Template query without its `name` condition
TemplateRows_AnyName(theme, name) ==
    { [kind |-> "template", id |-> i, theme_id |-> templateTable[i].theme_id,
       name |-> templateTable[i].name,
       layout |-> [id |-> templateTable[i].layout_id]] :
        i \in {j \in DOMAIN templateTable : templateTable[j].theme_id = theme} }

\* bookshelf.model('template').where({theme_id, name}).fetch({withRelated: ['layout']})
TemplateRows(theme, name) ==
    { [kind |-> "template", id |-> i, theme_id |-> templateTable[i].theme_id,
       name |-> templateTable[i].name,
       layout |-> [id |-> templateTable[i].layout_id]] :
        i \in {j \in DOMAIN templateTable :
                  templateTable[j].theme_id = theme /\ templateTable[j].name = name} }

-----------------------------------------------------------------------------
(* Theme service: the calls                                                *)

ThemeIdle ==
    /\ entry = "none" /\ clientId = "" /\ page = "" /\ context = EmptyObject
    /\ heap = [ctx |-> EmptyObject, layoutContext |-> EmptyObject]
    /\ pc = "idle" /\ client = NoClient /\ template = NoTemplate
    /\ layoutCode = NoText /\ templateCode = NoText /\ renderedTemplate = NoHtml
    /\ io = <<>> /\ result = Pending

ThemeInit ==
    /\ clientTable \in [ClientIds -> ThemeIds \cup {NULL}]
    /\ templateTable \in [1..NumTemplates ->
                            [theme_id : ThemeIds, name : Pages, layout_id : {"l1"}]]
    /\ disk \in SUBSET DefaultFiles
    /\ ThemeIdle

\* a step of the theme service touches no handler's state, and so on
ThemeStep == UNCHANGED <<resetVars, changeVars, profileVars>>
ResetStep == UNCHANGED <<themeVars, changeVars, profileVars>>
ChangeStep == UNCHANGED <<themeVars, resetVars, profileVars>>
ProfileStep == UNCHANGED <<themeVars, resetVars, changeVars>>

dbVars == <<clientTable, templateTable, disk>>
argVars == <<entry, clientId, page, context>>

\* a caller invokes one of the three entry points
Call ==
    /\ pc = "idle"
    /\ entry' \in {"fetchTemplate", "getThemedTemplate", "renderThemedTemplate"}
    /\ clientId' \in ClientIds \cup {UnknownClientId, "", UNDEFINED}
    /\ page' \in Pages
    /\ context' \in Contexts
    /\ heap' = [ctx |-> context', layoutContext |-> EmptyObject]
    /\ pc' = CASE entry' = "fetchTemplate" -> "fetch_assert"
               [] entry' = "getThemedTemplate" -> "get_assert"
               [] OTHER -> "render_call"
    /\ UNCHANGED <<dbVars, client, template, layoutCode, templateCode,
                   renderedTemplate, io, result>>
    /\ ThemeStep

\* an exception leaves every frame: no function of the service catches
Throw(err) ==
    /\ result' = err
    /\ pc' = "done"

\* line 52: renderThemedTemplate awaits getThemedTemplate
renderThemedTemplate_Call ==
    /\ pc = "render_call"
    /\ pc' = "get_assert"
    /\ UNCHANGED <<dbVars, argVars, heap, client, template, layoutCode,
                   templateCode, renderedTemplate, io, result>>
    /\ ThemeStep

\* line 29
getThemedTemplate_Assert ==
    /\ pc = "get_assert"
    /\ IF Truthy(clientId)
       THEN pc' = "fetch_assert" /\ UNCHANGED result
       ELSE Throw(Error("clientId is required", "getThemedTemplate"))
    /\ UNCHANGED <<dbVars, argVars, heap, client, template, layoutCode,
                   templateCode, renderedTemplate, io>>
    /\ ThemeStep

\* line 10
fetchTemplate_Assert ==
    /\ pc = "fetch_assert"
    /\ IF Truthy(clientId)
       THEN pc' = "fetch_client" /\ UNCHANGED result
       ELSE Throw(Error("clientId is required", "fetchTemplate"))
    /\ UNCHANGED <<dbVars, argVars, heap, client, template, layoutCode,
                   templateCode, renderedTemplate, io>>
    /\ ThemeStep

\* what fetch() does when no row matches: it resolves null, or (a bookshelf
\* whose fetch requires a row) rejects with NotFoundError
FetchNoMatch == {"null", "reject"}

\* lines 12-14
fetchTemplate_FetchClient ==
    /\ pc = "fetch_client"
    /\ io' = Append(io, [op |-> "db", model |-> "client", key |-> <<clientId>>])
    /\ IF ClientRow(clientId) # NoClient
       THEN client' = ClientRow(clientId) /\ pc' = "fetch_theme" /\ UNCHANGED result
       ELSE \E how \in FetchNoMatch :
              IF how = "null"
              THEN client' = NoClient /\ pc' = "fetch_theme" /\ UNCHANGED result
              ELSE client' = client /\ Throw(Error("NotFoundError", "fetchTemplate"))
    /\ UNCHANGED <<dbVars, argVars, heap, template, layoutCode, templateCode,
                   renderedTemplate>>
    /\ ThemeStep

\* fetchTemplate returns v: to its caller when it is the entry point, to
\* line 30 of getThemedTemplate otherwise
fetchTemplate_Return(v) ==
    /\ template' = v
    /\ IF entry = "fetchTemplate"
       THEN result' = Value(v) /\ pc' = "done"
       ELSE result' = result /\ pc' = "get_branch"

\* line 17 written null-safe: a missing client counts as a client without theme
fetchTemplate_ThemeCheck_NullSafe ==
    /\ pc = "fetch_theme"
    /\ IF client = NoClient \/ ~Truthy(client.theme_id)
       THEN fetchTemplate_Return(NoTemplate)
       ELSE pc' = "fetch_template" /\ UNCHANGED <<template, result>>
    /\ UNCHANGED <<dbVars, argVars, heap, client, layoutCode, templateCode,
                   renderedTemplate, io>>
    /\ ThemeStep

\* line 17: client.get('theme_id') of null is a TypeError
fetchTemplate_ThemeCheck ==
    /\ pc = "fetch_theme"
    /\ IF client = NoClient
       THEN Throw(Error("TypeError", "fetchTemplate")) /\ UNCHANGED template
       ELSE IF ~Truthy(client.theme_id)
       THEN fetchTemplate_Return(NoTemplate)
       ELSE pc' = "fetch_template" /\ UNCHANGED <<template, result>>
    /\ UNCHANGED <<dbVars, argVars, heap, client, layoutCode, templateCode,
                   renderedTemplate, io>>
    /\ ThemeStep

\* the theme and the name the Template query filters on (lines 21-22)
TemplateQuery == [theme_id |-> client.theme_id, name |-> page]

\* lines 20-25: the first matching row, any of them when several match
fetchTemplate_FetchTemplate ==
    /\ pc = "fetch_template"
    /\ io' = Append(io, [op |-> "db", model |-> "template",
                         key |-> <<TemplateQuery.theme_id, TemplateQuery.name>>])
    /\ LET rows == TemplateRows(TemplateQuery.theme_id, TemplateQuery.name)
       IN IF rows = {}
          THEN fetchTemplate_Return(NoTemplate)
          ELSE \E row \in rows : fetchTemplate_Return(row)
    /\ UNCHANGED <<dbVars, argVars, heap, client, layoutCode, templateCode,
                   renderedTemplate>>
    /\ ThemeStep

\* line 33
getThemedTemplate_Branch ==
    /\ pc = "get_branch"
    /\ pc' = IF template = NoTemplate THEN "read_layout" ELSE "custom_render"
    /\ UNCHANGED <<dbVars, argVars, heap, client, template, layoutCode,
                   templateCode, renderedTemplate, io, result>>
    /\ ThemeStep

\* line 35 with the read's failure caught and an empty layout used instead
getThemedTemplate_ReadLayout_Swallow ==
    /\ pc = "read_layout"
    /\ io' = Append(io, [op |-> "readFile", model |-> "fs", key |-> LayoutPath(page)])
    /\ layoutCode' = IF LayoutPath(page) \in disk THEN FileText(LayoutPath(page)) ELSE NoText
    /\ pc' = "read_page"
    /\ UNCHANGED <<dbVars, argVars, heap, client, template, templateCode,
                   renderedTemplate, result>>
    /\ ThemeStep

\* line 35
getThemedTemplate_ReadLayout ==
    /\ pc = "read_layout"
    /\ io' = Append(io, [op |-> "readFile", model |-> "fs", key |-> LayoutPath(page)])
    /\ IF LayoutPath(page) \in disk
       THEN layoutCode' = FileText(LayoutPath(page)) /\ pc' = "read_page"
            /\ UNCHANGED result
       ELSE layoutCode' = layoutCode /\ Throw(Error("ENOENT", "getThemedTemplate"))
    /\ UNCHANGED <<dbVars, argVars, heap, client, template, templateCode,
                   renderedTemplate>>
    /\ ThemeStep

\* line 37
getThemedTemplate_ReadPage ==
    /\ pc = "read_page"
    /\ io' = Append(io, [op |-> "readFile", model |-> "fs", key |-> PagePath(page)])
    /\ IF PagePath(page) \in disk
       THEN templateCode' = FileText(PagePath(page)) /\ pc' = "render_default"
            /\ UNCHANGED result
       ELSE templateCode' = templateCode /\ Throw(Error("ENOENT", "getThemedTemplate"))
    /\ UNCHANGED <<dbVars, argVars, heap, client, template, layoutCode,
                   renderedTemplate>>
    /\ ThemeStep

\* line 39: the object Object.assign writes to
AssignTarget == "layoutContext"

\* the sources of line 39 in the other order: the context's own keys win
LayoutContext_ContextLast(target, ctx, content) == ObjectAssign(target, [content |-> content], ctx)

\* line 39: Object.assign({}, context, { content: pageTemplate(context) })
LayoutContext(target, ctx, content) == ObjectAssign(target, ctx, [content |-> content])

\* lines 36, 38-40
getThemedTemplate_RenderDefault ==
    /\ pc = "render_default"
    /\ LET content == Render(templateCode, heap.ctx)
           target == IF AssignTarget = "ctx" THEN heap.ctx ELSE EmptyObject
           assigned == LayoutContext(target, heap.ctx, content)
       IN /\ heap' = [heap EXCEPT ![AssignTarget] = assigned]
          /\ renderedTemplate' = Render(layoutCode, assigned)
    /\ pc' = "get_return"
    /\ UNCHANGED <<dbVars, argVars, client, template, layoutCode, templateCode,
                   io, result>>
    /\ ThemeStep

\* template.render(page, context) of a Template row: owned by the model class
TemplateRender(t, p, ctx) == [html |-> [template |-> t.id, layout |-> t.layout.id, page |-> p], with |-> ctx]

\* line 42
getThemedTemplate_RenderCustom ==
    /\ pc = "custom_render"
    /\ renderedTemplate' = TemplateRender(template, page, heap.ctx)
    /\ pc' = "get_return"
    /\ UNCHANGED <<dbVars, argVars, heap, client, template, layoutCode,
                   templateCode, io, result>>
    /\ ThemeStep

\* lines 45-48
getThemedTemplate_Return ==
    /\ pc = "get_return"
    /\ result' = Value([template |-> template, renderedTemplate |-> renderedTemplate])
    /\ pc' = IF entry = "getThemedTemplate" THEN "done" ELSE "render_return"
    /\ UNCHANGED <<dbVars, argVars, heap, client, template, layoutCode,
                   templateCode, renderedTemplate, io>>
    /\ ThemeStep

\* the other component of getThemedTemplate's result
Destructure_Template(r) == r.template

\* what renderThemedTemplate keeps of getThemedTemplate's result (lines 52-53)
Destructure(r) == r.renderedTemplate

renderThemedTemplate_Return ==
    /\ pc = "render_return"
    /\ result' = Value(Destructure(result.value))
    /\ pc' = "done"
    /\ UNCHANGED <<dbVars, argVars, heap, client, template, layoutCode,
                   templateCode, renderedTemplate, io>>
    /\ ThemeStep

\* the caller has the outcome; the service keeps nothing of the call
Finish ==
    /\ pc = "done"
    /\ entry' = "none" /\ clientId' = "" /\ page' = "" /\ context' = EmptyObject
    /\ heap' = [ctx |-> EmptyObject, layoutContext |-> EmptyObject]
    /\ pc' = "idle" /\ client' = NoClient /\ template' = NoTemplate
    /\ layoutCode' = NoText /\ templateCode' = NoText /\ renderedTemplate' = NoHtml
    /\ io' = <<>> /\ result' = Pending
    /\ UNCHANGED dbVars
    /\ ThemeStep

Next ==
    \/ Call
    \/ renderThemedTemplate_Call
    \/ getThemedTemplate_Assert
    \/ fetchTemplate_Assert
    \/ fetchTemplate_FetchClient
    \/ fetchTemplate_ThemeCheck
    \/ fetchTemplate_FetchTemplate
    \/ getThemedTemplate_Branch
    \/ getThemedTemplate_ReadLayout
    \/ getThemedTemplate_ReadPage
    \/ getThemedTemplate_RenderDefault
    \/ getThemedTemplate_RenderCustom
    \/ getThemedTemplate_Return
    \/ renderThemedTemplate_Return
    \/ Finish

-----------------------------------------------------------------------------
(* The state of a part of the program that takes no step                   *)

ThemeOff ==
    /\ clientTable = <<>> /\ templateTable = <<>> /\ disk = {}
    /\ ThemeIdle

ResetOff ==
    /\ tokens = <<>> /\ passwords = <<>> /\ verified = <<>> /\ updates = <<>>
    /\ rq = <<>>

ChangeOff ==
    /\ cpStored = "" /\ cpReq = <<>> /\ cpPc = "idle" /\ cpAuth = FALSE
    /\ cpHashed = "" /\ cpLog = <<>> /\ cpDone = 0

ProfileOff ==
    /\ upProfile = <<>> /\ upStored = <<>> /\ upReq = <<>> /\ upPc = "idle"
    /\ upOld = "" /\ upLog = <<>> /\ upImages = {}

Init == ThemeInit /\ ResetOff /\ ChangeOff /\ ProfileOff

Spec == Init /\ [][Next]_vars

-----------------------------------------------------------------------------
(* userService, as the controller uses it                                  *)

\* userService.encryptPassword(password)
EncryptPassword(p) == <<"hash", p>>

\* userService.findByPasswordToken(token): the user the token was issued to
FindByPasswordToken(t) == IF t \in DOMAIN tokens THEN tokens[t] ELSE NULL

\* userService.destroyPasswordToken(token)
DestroyPasswordToken(t) == [u \in DOMAIN tokens \ {t} |-> tokens[u]]

\* comparePasswords(current, user): does `current` hash to the user's password
ComparePasswords(current, userPassword) == EncryptPassword(current) = userPassword

-----------------------------------------------------------------------------
(* postResetPasswordForm (user-controller.js, lines 144-171)               *)

NumRequests == 2

Users == {"u1"}
IssuedTokens == {"tok1"}
RequestTokens == {"tok1", "stale"}
NewPasswords == {"pw1", "pw2"}

Requests == 1..NumRequests

RqIdle == [pc |-> "idle", token |-> "", password |-> "", user |-> NULL,
           hashed |-> <<>>, reply |-> <<>>]

ResetInit ==
    /\ tokens = [t \in IssuedTokens |-> "u1"]
    /\ passwords = [u \in Users |-> EncryptPassword("old")]
    /\ verified = [u \in Users |-> FALSE]
    /\ updates = [t \in RequestTokens |-> 0]
    /\ rq = [r \in Requests |-> RqIdle]

\* a POST arrives: request.query.token and request.payload.password
postResetPasswordForm_Receive(r) ==
    /\ rq[r].pc = "idle"
    /\ \E t \in RequestTokens, p \in NewPasswords :
          rq' = [rq EXCEPT ![r].pc = "find", ![r].token = t, ![r].password = p]
    /\ UNCHANGED <<tokens, passwords, verified, updates>>
    /\ ResetStep

\* lines 145-147
postResetPasswordForm_Find(r) ==
    /\ rq[r].pc = "find"
    /\ LET user == FindByPasswordToken(rq[r].token)
       IN rq' = [rq EXCEPT ![r].user = user,
                           ![r].pc = IF Truthy(user) THEN "encrypt" ELSE "render_invalid"]
    /\ UNCHANGED <<tokens, passwords, verified, updates>>
    /\ ResetStep

\* line 148
postResetPasswordForm_Encrypt(r) ==
    /\ rq[r].pc = "encrypt"
    /\ rq' = [rq EXCEPT ![r].hashed = EncryptPassword(rq[r].password), ![r].pc = "update"]
    /\ UNCHANGED <<tokens, passwords, verified, updates>>
    /\ ResetStep

\* lines 149-151: userService.update(id, { password, profile }) with
\* profile.email_verified = true
postResetPasswordForm_Update(r) ==
    /\ rq[r].pc = "update"
    /\ passwords' = [passwords EXCEPT ![rq[r].user] = rq[r].hashed]
    /\ verified' = [verified EXCEPT ![rq[r].user] = TRUE]
    /\ updates' = [updates EXCEPT ![rq[r].token] = @ + 1]
    /\ rq' = [rq EXCEPT ![r].pc = "destroy"]
    /\ UNCHANGED tokens
    /\ ResetStep

\* line 152
postResetPasswordForm_Destroy(r) ==
    /\ rq[r].pc = "destroy"
    /\ tokens' = DestroyPasswordToken(rq[r].token)
    /\ rq' = [rq EXCEPT ![r].pc = "render_success"]
    /\ UNCHANGED <<passwords, verified, updates>>
    /\ ResetStep

\* lines 154-160: the themed page, or the static view when the theme service
\* returns nothing
postResetPasswordForm_RenderSuccess(r) ==
    /\ rq[r].pc = "render_success"
    /\ \E themed \in BOOLEAN :
          rq' = [rq EXCEPT ![r].pc = "done",
                           ![r].reply = [page |-> "reset-password-success",
                                         themed |-> themed,
                                         view |-> <<"resetPasswordSuccess", "title", "request">>]]
    /\ UNCHANGED <<tokens, passwords, verified, updates>>
    /\ ResetStep

\* lines 162-169: views.resetPassword is called with (request, errors)
postResetPasswordForm_RenderInvalid(r) ==
    /\ rq[r].pc = "render_invalid"
    /\ \E themed \in BOOLEAN :
          rq' = [rq EXCEPT ![r].pc = "done",
                           ![r].reply = [page |-> "reset-password",
                                         themed |-> themed,
                                         view |-> <<"resetPassword", "request",
                                                    "Token is invalid or expired">>]]
    /\ UNCHANGED <<tokens, passwords, verified, updates>>
    /\ ResetStep

InitReset == ThemeOff /\ ResetInit /\ ChangeOff /\ ProfileOff

NextReset ==
    \E r \in Requests :
        \/ postResetPasswordForm_Receive(r)
        \/ postResetPasswordForm_Find(r)
        \/ postResetPasswordForm_Encrypt(r)
        \/ postResetPasswordForm_Update(r)
        \/ postResetPasswordForm_Destroy(r)
        \/ postResetPasswordForm_RenderSuccess(r)
        \/ postResetPasswordForm_RenderInvalid(r)

SpecReset == InitReset /\ [][NextReset]_vars

\* C8: a password reset token is single-use: however the requests carrying
\* it interleave, the password is updated at most once for that token
C8_TokenIsSingleUse == \A t \in DOMAIN updates : updates[t] <= 1

-----------------------------------------------------------------------------
(* changePassword (user-controller.js, lines 46-59)                        *)

MaxChangeRequests == 2

CurrentInputs == {"old", "pw1", "wrong"}

ChangeInit ==
    /\ cpStored \in {EncryptPassword("old"), EncryptPassword("pw1")}
    /\ cpReq = [current |-> "", password |-> "", before |-> cpStored]
    /\ cpPc = "idle" /\ cpAuth = FALSE /\ cpHashed = <<>> /\ cpLog = <<>>
    /\ cpDone = 0

\* the handler is called with request.payload and the user of the session
changePassword_Receive ==
    /\ cpPc = "idle" /\ cpDone < MaxChangeRequests
    /\ \E c \in CurrentInputs, p \in NewPasswords :
          cpReq' = [current |-> c, password |-> p, before |-> cpStored]
    /\ cpPc' = "compare" /\ cpAuth' = FALSE /\ cpHashed' = <<>> /\ cpLog' = <<>>
    /\ UNCHANGED <<cpStored, cpDone>>
    /\ ChangeStep

\* the branch of line 51 taken whatever comparePasswords answered
AfterCompare_NoCheck(isAuthenticated) == "encrypt"

\* lines 51, 55
AfterCompare(isAuthenticated) == IF isAuthenticated THEN "encrypt" ELSE "render"

\* line 48
changePassword_Compare ==
    /\ cpPc = "compare"
    /\ cpAuth' = ComparePasswords(cpReq.current, cpReq.before)
    /\ cpLog' = Append(cpLog, [call |-> "comparePasswords", arg |-> <<cpReq.current>>])
    /\ cpPc' = AfterCompare(cpAuth')
    /\ UNCHANGED <<cpStored, cpReq, cpHashed, cpDone>>
    /\ ChangeStep

\* line 52
changePassword_Encrypt ==
    /\ cpPc = "encrypt"
    /\ cpHashed' = EncryptPassword(cpReq.password)
    /\ cpLog' = Append(cpLog, [call |-> "encryptPassword", arg |-> <<cpReq.password>>])
    /\ cpPc' = "update"
    /\ UNCHANGED <<cpStored, cpReq, cpAuth, cpDone>>
    /\ ChangeStep

\* line 53
changePassword_Update ==
    /\ cpPc = "update"
    /\ cpStored' = cpHashed
    /\ cpLog' = Append(cpLog, [call |-> "update", arg |-> cpHashed])
    /\ cpPc' = "email"
    /\ UNCHANGED <<cpReq, cpAuth, cpHashed, cpDone>>
    /\ ChangeStep

\* line 54
changePassword_SendEmail ==
    /\ cpPc = "email"
    /\ cpLog' = Append(cpLog, [call |-> "sendPasswordChangeEmail", arg |-> <<>>])
    /\ cpPc' = "render"
    /\ UNCHANGED <<cpStored, cpReq, cpAuth, cpHashed, cpDone>>
    /\ ChangeStep

\* the `error` of line 49, as lines 51-57 leave it
ErrorOf(isAuthenticated) ==
    IF isAuthenticated THEN <<UNDEFINED>> ELSE <<"current", "Password is incorrect">>

\* line 58
changePassword_Render ==
    /\ cpPc = "render"
    /\ cpLog' = Append(cpLog, [call |-> "render", arg |-> ErrorOf(cpAuth)])
    /\ cpPc' = "done"
    /\ UNCHANGED <<cpStored, cpReq, cpAuth, cpHashed, cpDone>>
    /\ ChangeStep

\* the response is out; the next request may come
changePassword_Finish ==
    /\ cpPc = "done"
    /\ cpPc' = "idle" /\ cpDone' = cpDone + 1
    /\ UNCHANGED <<cpStored, cpReq, cpAuth, cpHashed, cpLog>>
    /\ ChangeStep

InitChangePassword == ThemeOff /\ ResetOff /\ ChangeInit /\ ProfileOff

NextChangePassword ==
    \/ changePassword_Receive
    \/ changePassword_Compare
    \/ changePassword_Encrypt
    \/ changePassword_Update
    \/ changePassword_SendEmail
    \/ changePassword_Render
    \/ changePassword_Finish

SpecChangePassword == InitChangePassword /\ [][NextChangePassword]_vars

\* the calls changePassword makes for a request, in order, given what
\* comparePasswords answers
ExpectedCalls(req, authenticated) ==
    IF authenticated
    THEN << [call |-> "comparePasswords", arg |-> <<req.current>>],
            [call |-> "encryptPassword", arg |-> <<req.password>>],
            [call |-> "update", arg |-> <<"hash", req.password>>],
            [call |-> "sendPasswordChangeEmail", arg |-> <<>>],
            [call |-> "render", arg |-> <<UNDEFINED>>] >>
    ELSE << [call |-> "comparePasswords", arg |-> <<req.current>>],
            [call |-> "render", arg |-> <<"current", "Password is incorrect">>] >>

IsPrefix(a, b) == Len(a) <= Len(b) /\ SubSeq(b, 1, Len(a)) = a

\* C9: the password is updated and the mail sent only when the current
\* password matches, in the order encrypt, update, send; otherwise neither
\* happens and the stored password stays; render is the last call, made
\* once, with the error exactly when the comparison failed
C9_ChangePasswordOrder ==
    cpPc # "idle" =>
        LET authenticated == ComparePasswords(cpReq.current, cpReq.before)
        IN /\ IsPrefix(cpLog, ExpectedCalls(cpReq, authenticated))
           /\ cpPc = "done" => cpLog = ExpectedCalls(cpReq, authenticated)
           /\ ~authenticated => cpStored = cpReq.before
           /\ (cpPc = "done" /\ authenticated) => cpStored = <<"hash", cpReq.password>>

C9_Witness ==
    /\ cpPc = "done"
    /\ ~ComparePasswords(cpReq.current, cpReq.before)
    /\ cpDone > 0 /\ cpStored # EncryptPassword("old")

-----------------------------------------------------------------------------
(* updateProfile (user-controller.js, lines 13-23 and 61-86)               *)

\* the path of a key of the submitted form: 'address.city' is address, city
Segments(key) ==
    CASE key = "address.city" -> <<"address", "city">>
      [] key = "address.zip" -> <<"address", "zip">>
      [] OTHER -> <<key>>

\* expandDotPaths(object): every key holding a '.' is deleted and set again
\* by its path (lodash set)
expandDotPaths(object) ==
    LET plain == {k \in DOMAIN object : Len(Segments(k)) = 1}
        dotted == DOMAIN object \ plain
        heads == {Segments(k)[1] : k \in dotted}
    IN [h \in plain \cup heads |->
          IF h \in heads
          THEN LET under == {k \in dotted : Segments(k)[1] = h}
               IN [t \in {Segments(k)[2] : k \in under} |->
                     object[CHOOSE k \in under : Segments(k)[2] = t]]
          ELSE object[h]]

\* delete object[key]
Delete(object, key) == [k \in DOMAIN object \ {key} |-> object[k]]

\* picture.replace(/^.*\/\/[^\/]+\//, ''): the scheme and host of a URL go
StripOrigin(picture) ==
    LET ends == {i \in 1..(Len(picture) - 2) :
                    /\ picture[i] = "//"
                    /\ picture[i + 1] \notin {"/", "//"}
                    /\ picture[i + 2] = "/"}
    IN IF ends = {} THEN picture
       ELSE LET last == CHOOSE i \in ends : \A j \in ends : j <= i
            IN SubSeq(picture, last + 3, Len(picture))

Pictures ==
    { <<"https:", "//", "cdn.example", "/", "pictures/ab/old.png">>,
      <<"pictures/cd/old.png">> }

Profiles ==
    { [k \in {"name"} |-> Str("Bob")] } \cup
    { [k \in {"name", "picture"} |-> IF k = "name" THEN Str("Bob") ELSE pic] : pic \in Pictures }

\* request.payload without its picture
Forms ==
    { [k \in {"name"} |-> Str("Ann")],
      [k \in {"name", "address.city"} |-> IF k = "name" THEN Str("Ann") ELSE Str("Oslo")],
      [k \in {"address.city", "address.zip"} |-> IF k = "address.zip" THEN Str("0150") ELSE Str("Oslo")] }

ContentTypes == {"image/jpeg", "image/png", "image/gif", "application/pdf"}
RedirectUris == {"https://rp.example/cb", "https://other.example/cb"}

WithPicture(form, mime) ==
    [k \in DOMAIN form \cup {"picture"} |-> IF k = "picture" THEN [stream |-> mime] ELSE form[k]]

ProfileInit ==
    /\ upProfile \in Profiles
    /\ upStored = upProfile
    /\ upReq = [payload |-> EmptyObject, mime |-> "", redirect_uri |-> ""]
    /\ upPc = "idle" /\ upOld = <<>> /\ upLog = <<>>
    /\ upImages = IF "picture" \in DOMAIN upProfile
                  THEN {StripOrigin(upProfile["picture"])} ELSE {}

\* the route hands the request to the handler
updateProfile_Receive ==
    /\ upPc = "idle"
    /\ \E form \in Forms, mime \in ContentTypes, uri \in RedirectUris :
          upReq' = [payload |-> WithPicture(form, mime), mime |-> mime, redirect_uri |-> uri]
    /\ upPc' = "begin"
    /\ UNCHANGED <<upProfile, upStored, upOld, upLog, upImages>>
    /\ ProfileStep

\* line 68
IsPicture(pictureMIME) == pictureMIME \in {"image/jpeg", "image/png"}

\* lines 62-77. Line 69, `const uuid = uuid()`, reads the block's own `uuid`
\* before it is initialised: it throws (ReferenceError; TypeError once
\* compiled to `var`), so the branch of a picture ends there
updateProfile_Begin ==
    /\ upPc = "begin"
    /\ upOld' = IF "picture" \in DOMAIN upProfile THEN upProfile["picture"] ELSE <<>>
    /\ LET payload == expandDotPaths(upReq.payload)
       IN IF IsPicture(upReq.mime)
          THEN /\ upReq' = [upReq EXCEPT !.payload = payload]
               /\ upLog' = Append(upLog, [call |-> "throw", arg |-> <<"uuid is not initialised">>])
               /\ upPc' = "error"
               /\ UNCHANGED upProfile
          ELSE /\ upReq' = [upReq EXCEPT !.payload = Delete(payload, "picture")]
               /\ upProfile' = ObjectAssign(upProfile, Delete(payload, "picture"), EmptyObject)
               /\ upPc' = "update"
               /\ UNCHANGED upLog
    /\ UNCHANGED <<upStored, upImages>>
    /\ ProfileStep

\* lines 79-81
updateProfile_Update ==
    /\ upPc = "update"
    /\ upStored' = upProfile
    /\ upLog' = Append(upLog, [call |-> "update", arg |-> <<>>])
    /\ upPc' = IF upOld # <<>> THEN "delete_old" ELSE "redirect"
    /\ UNCHANGED <<upProfile, upReq, upOld, upImages>>
    /\ ProfileStep

\* line 82
updateProfile_DeleteOld ==
    /\ upPc = "delete_old"
    /\ upImages' = upImages \ {StripOrigin(upOld)}
    /\ upLog' = Append(upLog, [call |-> "deleteImage", arg |-> StripOrigin(upOld)])
    /\ upPc' = "redirect"
    /\ UNCHANGED <<upProfile, upStored, upReq, upOld>>
    /\ ProfileStep

\* line 85
updateProfile_Redirect ==
    /\ upPc = "redirect"
    /\ upLog' = Append(upLog, [call |-> "redirect", arg |-> <<upReq.redirect_uri>>])
    /\ upPc' = "done"
    /\ UNCHANGED <<upProfile, upStored, upReq, upOld, upImages>>
    /\ ProfileStep

InitUpdateProfile == ThemeOff /\ ResetOff /\ ChangeOff /\ ProfileInit

NextUpdateProfile ==
    \/ updateProfile_Receive
    \/ updateProfile_Begin
    \/ updateProfile_Update
    \/ updateProfile_DeleteOld
    \/ updateProfile_Redirect

SpecUpdateProfile == InitUpdateProfile /\ [][NextUpdateProfile]_vars

\* C10: for a picture of type image/jpeg or image/png the handler uploads
\* the picture, then updates the profile, then deletes the old picture if
\* there was one, and ends by redirecting
C10_PictureUploadOrder ==
    (upPc \in {"done", "error"} /\ upReq.mime \in {"image/jpeg", "image/png"}) =>
        /\ upPc = "done"
        /\ [i \in DOMAIN upLog |-> upLog[i].call] =
              IF upOld # <<>>
              THEN <<"uploadImageStream", "update", "deleteImage", "redirect">>
              ELSE <<"uploadImageStream", "update", "redirect">>

-----------------------------------------------------------------------------
(* Theme service: properties                                               *)

\* both default assets of a page are on disk
DefaultAssetsExist(p) == DefaultLayoutFile(p) \in disk /\ DefaultPageFile(p) \in disk

\* the HTML of the default page inside its default layout
DefaultHtml(p, ctx) ==
    [html |-> [file |-> DefaultLayoutFile(p)],
     with |-> [k \in DOMAIN ctx \cup {"content"} |->
                 IF k = "content"
                 THEN [html |-> [file |-> DefaultPageFile(p)], with |-> ctx]
                 ELSE ctx[k]]]

ClientExists == clientId \in DOMAIN clientTable
MatchingTemplates ==
    {i \in DOMAIN templateTable :
        /\ templateTable[i].theme_id = clientTable[clientId]
        /\ templateTable[i].name = page}
\* the client has no theme, or its theme has no Template for the page
NoCustomTemplate ==
    ClientExists /\ (clientTable[clientId] = NULL \/ MatchingTemplates = {})

Rendering == entry \in {"getThemedTemplate", "renderThemedTemplate"}
Ended == pc = "done"
\* the HTML a finished rendering call hands to its caller
ReturnedHtml ==
    IF entry = "renderThemedTemplate" THEN result.value ELSE result.value.renderedTemplate
Reads == {i \in DOMAIN io : io[i].op = "readFile"}

\* C1 as stated: a client without custom template for the page is always
\* served the default template/layout pair: the call never ends in an error
C1_AlwaysFallsBack ==
    (Ended /\ Rendering /\ NoCustomTemplate) =>
        (result.kind = "value" /\ ReturnedHtml = DefaultHtml(page, context))

\* C1 amended: a client without custom template for the page is served the
\* default template/layout pair whenever both default files of the page exist
C1_FallsBackWhenAssetsExist ==
    (Ended /\ Rendering /\ NoCustomTemplate /\ DefaultAssetsExist(page)) =>
        (result.kind = "value" /\ ReturnedHtml = DefaultHtml(page, context))

C1_Witness ==
    /\ Ended /\ Rendering /\ NoCustomTemplate /\ DefaultAssetsExist(page)
    /\ clientTable[clientId] # NULL
    /\ result.kind = "value"

\* C2: fetchTemplate of an existing client returns false when the client has
\* no theme, false when no Template matches (theme, page), and otherwise a
\* Template row of the client's theme and of that page, with its layout
C2_FetchTemplateResult ==
    (Ended /\ entry = "fetchTemplate" /\ ClientExists) =>
        /\ result.kind = "value"
        /\ clientTable[clientId] = NULL => result.value = NoTemplate
        /\ MatchingTemplates = {} => result.value = NoTemplate
        /\ (clientTable[clientId] # NULL /\ MatchingTemplates # {}) =>
              /\ result.value.kind = "template"
              /\ result.value.id \in MatchingTemplates
              /\ result.value.theme_id = clientTable[clientId]
              /\ result.value.name = page
              /\ result.value.layout = [id |-> templateTable[result.value.id].layout_id]

C2_Witness ==
    /\ Ended /\ entry = "fetchTemplate" /\ ClientExists
    /\ result.kind = "value" /\ result.value # NoTemplate
    /\ \E i \in DOMAIN templateTable : i \notin MatchingTemplates

\* C3: a call without client identifier ends in the assertion error of the
\* function it entered, and performs no lookup and no file read
C3_MissingClientIdFailsBeforeIO ==
    (entry # "none" /\ clientId \in {"", UNDEFINED}) =>
        /\ io = <<>>
        /\ pc \in {"render_call", "get_assert", "fetch_assert", "done"}
        /\ Ended =>
              result = [kind |-> "error", name |-> "clientId is required",
                        at |-> IF entry = "fetchTemplate" THEN "fetchTemplate"
                               ELSE "getThemedTemplate"]

C3_Witness ==
    /\ Ended /\ clientId = "" /\ entry = "renderThemedTemplate"
    /\ result.kind = "error"

\* C4: a call for a client identifier without Client row ends in an error:
\* fetchTemplate never returns false for it and nothing is rendered
C4_UnknownClientIsAnError ==
    (entry # "none" /\ Truthy(clientId) /\ ~ClientExists) =>
        /\ pc \in {"render_call", "get_assert", "fetch_assert", "fetch_client",
                   "fetch_theme", "done"}
        /\ Reads = {}
        /\ Ended => (result.kind = "error" /\ result.name \in {"TypeError", "NotFoundError"})

C4_Witness ==
    /\ Ended /\ Truthy(clientId) /\ ~ClientExists
    /\ result.kind = "error" /\ result.name = "TypeError"

\* C5: without custom template the HTML returned is the default layout
\* rendered with the context in which `content` is replaced by the default
\* page rendered with the caller's context, and the caller's context object
\* is left as it was passed
C5_DefaultRendering ==
    (Ended /\ Rendering /\ result.kind = "value" /\ template = NoTemplate) =>
        /\ ReturnedHtml = DefaultHtml(page, context)
        /\ heap.ctx = context

C5_Witness ==
    /\ Ended /\ Rendering /\ result.kind = "value" /\ template = NoTemplate
    /\ "content" \in DOMAIN context

\* C6: without custom template and with a default file of the page missing,
\* the call ends in the file-not-found error, returns nothing, and has read
\* no file twice
C6_MissingAssetPropagates ==
    (Rendering /\ NoCustomTemplate /\ ~DefaultAssetsExist(page)) =>
        /\ pc \notin {"render_default", "custom_render", "get_return", "render_return"}
        /\ renderedTemplate = NoHtml
        /\ \A i, j \in Reads : io[i].key = io[j].key => i = j
        /\ DefaultLayoutFile(page) \notin disk => Cardinality(Reads) <= 1
        /\ Ended => result = [kind |-> "error", name |-> "ENOENT", at |-> "getThemedTemplate"]

C6_Witness ==
    /\ Ended /\ entry = "renderThemedTemplate" /\ NoCustomTemplate
    /\ DefaultLayoutFile(page) \in disk /\ DefaultPageFile(page) \notin disk
    /\ result.kind = "error"

\* C7: renderThemedTemplate hands on the renderedTemplate of the result of
\* its getThemedTemplate call, fails only where that call fails, and does
\* no I/O of its own
C7_RenderIsProjection ==
    [][ /\ pc = "render_call" => (pc' = "get_assert" /\ io' = io /\ result' = result)
        /\ pc = "render_return" =>
              /\ result.kind = "value"
              /\ result' = [kind |-> "value", value |-> result.value.renderedTemplate]
              /\ pc' = "done" /\ io' = io
        /\ (pc = "get_return" /\ entry = "renderThemedTemplate") => pc' = "render_return"
        /\ (entry = "renderThemedTemplate" /\ pc' = "done" /\ result'.kind = "error") =>
              pc \notin {"render_call", "render_return"}
      ]_vars

C7_Witness ==
    /\ Ended /\ entry = "renderThemedTemplate" /\ result.kind = "value"
    /\ template # NoTemplate

====
